---- MODULE Spec2Model ----
(***************************************************************************)
(* A model of the erep crate (src/src/lib.rs): the wrapper Erep<T> with    *)
(* its four mapping operations, and the diagnostic tree Ereport.           *)
(*                                                                         *)
(* Option<X> is modelled as a sequence of length at most one: None is <<>> *)
(* and Some(x) is <<x>>.  Result<U, E> is a record with an ok flag.        *)
(* The wrapper of the pipeline is an Erep<Option<i32>> at every step (T =  *)
(* Option<i32>; U = Option<i32> for vmap and map, U = i32 for emap and     *)
(* omap), so that any operation can follow any other.  E is String.        *)
(***************************************************************************)
EXTENDS Integers, Sequences, FiniteSets, TLC

VARIABLES
    cur,       \* the current wrapper, Erep { val, rep }
    prev,      \* the wrapper the last mapping step consumed
    last,      \* the last mapping step: its name, its closure f, its msg argument
    steps,     \* number of mapping steps applied so far
    failed,    \* messages of the emap/omap steps that failed so far
    trail,     \* the Ereport under construction (Ereport operations)
    base,      \* the Ereport the construction started from
    pushed,    \* the children handed to push since base, in order
    tprev,     \* the Ereport the last Ereport operation consumed
    tlast      \* the last Ereport operation and its argument

vars == <<cur, prev, last, steps, failed, trail, base, pushed, tprev, tlast>>
pipeVars == <<cur, prev, last, steps, failed>>
trailVars == <<trail, base, pushed, tprev, tlast>>

---------------------------------------------------------------------------
(* Bounds of the model *)

MaxSteps == 3      \* mapping steps in one pipeline
MaxVal == 4        \* i32 payloads are 0..MaxVal
MaxKids == 3       \* children appended to one Ereport
MaxList == 2       \* length of a list folded with push_opt

---------------------------------------------------------------------------
(* Option and Result *)

None == <<>>
Some(x) == <<x>>
Ok(v) == [ok |-> TRUE, v |-> v]
Err(e) == [ok |-> FALSE, e |-> e]

(* format!("{e:?}") for e: String -- Debug formatting quotes the string *)
DebugFmt(e) == "\"" \o e \o "\""

DefaultNoneMsg == "Got None, instead of Some"

---------------------------------------------------------------------------
(* Ereport *)

empty == [msg |-> "", stack |-> <<>>]

new(m) == [msg |-> m, stack |-> <<>>]

push_prepend(self, other) == [msg |-> self.msg, stack |-> <<other>> \o self.stack]

push(self, other) == [msg |-> self.msg, stack |-> Append(self.stack, other)]

push_opt_drop(self, other) == IF other # None THEN self ELSE empty

push_opt(self, other) == IF other # None THEN push(self, other[1]) ELSE self

(* Iterator::fold(init, push_opt): a left fold over the list *)
RECURSIVE fold_push_opt(_, _)
fold_push_opt(acc, xs) ==
    IF xs = <<>> THEN acc
    ELSE fold_push_opt(push_opt(acc, Head(xs)), Tail(xs))

---------------------------------------------------------------------------
(* Erep *)

unwrap_with_err(self) == <<self.val, self.rep>>

vmap_drop_rep(self, f) == [val |-> f[self.val], rep |-> None]

vmap(self, f) == [val |-> f[self.val], rep |-> self.rep]

map_keep_none(self, f) ==
    LET vo == unwrap_with_err(self)[1]
        ro == unwrap_with_err(self)[2]
        v  == unwrap_with_err(f[vo])[1]
        r  == unwrap_with_err(f[vo])[2]
    IN  [val |-> v,
         rep |-> IF ro = None /\ r = None THEN None
                 ELSE Some(fold_push_opt(empty, <<ro, r>>))]

map_new_first(self, f) ==
    LET vo == unwrap_with_err(self)[1]
        ro == unwrap_with_err(self)[2]
        v  == unwrap_with_err(f[vo])[1]
        r  == unwrap_with_err(f[vo])[2]
    IN  [val |-> v, rep |-> Some(fold_push_opt(empty, <<r, ro>>))]

map(self, f) ==
    LET vo == unwrap_with_err(self)[1]
        ro == unwrap_with_err(self)[2]
        v  == unwrap_with_err(f[vo])[1]
        r  == unwrap_with_err(f[vo])[2]
    IN  [val |-> v, rep |-> Some(fold_push_opt(empty, <<ro, r>>))]

emap_thread_on_err(self, f, msg) ==
    LET vo  == unwrap_with_err(self)[1]
        ro  == unwrap_with_err(self)[2]
        res == f[vo]
    IN  IF res.ok THEN [val |-> Some(res.v), rep |-> ro]
        ELSE IF msg # None THEN [val |-> None, rep |-> Some(new(msg[1]))]
        ELSE [val |-> None, rep |-> ro]

emap_nest_prior(self, f, msg) ==
    LET vo  == unwrap_with_err(self)[1]
        ro  == unwrap_with_err(self)[2]
        res == f[vo]
    IN  IF res.ok THEN [val |-> Some(res.v), rep |-> ro]
        ELSE IF msg # None
             THEN [val |-> None, rep |-> Some(push_opt(new(msg[1]), ro))]
        ELSE [val |-> None, rep |-> Some(push_opt(new(DebugFmt(res.e)), ro))]

emap(self, f, msg) ==
    LET vo  == unwrap_with_err(self)[1]
        ro  == unwrap_with_err(self)[2]
        res == f[vo]
    IN  IF res.ok THEN [val |-> Some(res.v), rep |-> ro]
        ELSE IF msg # None THEN [val |-> None, rep |-> Some(new(msg[1]))]
        ELSE [val |-> None, rep |-> Some(new(DebugFmt(res.e)))]

omap_msg_on_some(self, f, msg) ==
    LET res == f[self.val]
    IN  IF res # None
        THEN [val |-> Some(res[1]),
              rep |-> IF msg # None THEN Some(new(msg[1])) ELSE self.rep]
        ELSE IF msg = None THEN [val |-> None, rep |-> Some(new(DefaultNoneMsg))]
        ELSE [val |-> None, rep |-> Some(new(msg[1]))]

omap_ignore_msg(self, f, msg) ==
    LET res == f[self.val]
    IN  IF res # None THEN [val |-> Some(res[1]), rep |-> self.rep]
        ELSE [val |-> None, rep |-> Some(new(DefaultNoneMsg))]

omap(self, f, msg) ==
    LET res == f[self.val]
    IN  IF res # None THEN [val |-> Some(res[1]), rep |-> self.rep]
        ELSE IF msg = None THEN [val |-> None, rep |-> Some(new(DefaultNoneMsg))]
        ELSE [val |-> None, rep |-> Some(new(msg[1]))]

---------------------------------------------------------------------------
(* The inputs a caller supplies: payloads, override messages, closures *)

Vals == 0 .. MaxVal
OptVal == {None} \cup {Some(n) : n \in Vals}
Msgs == {"custom", "oops"}
OptMsg == {None} \cup {Some(m) : m \in Msgs}
Errs == {"bad", "eof"}

(* trails a closure given to map may return, and children given to push *)
Kids == {[msg |-> "a", stack |-> <<>>],
         [msg |-> "b", stack |-> <<>>],
         [msg |-> "c", stack |-> <<[msg |-> "a", stack |-> <<>>]>>]}
OptKids == {None} \cup {Some(k) : k \in Kids}

(* |o| o.map(|i| i + 2), on the bounded payloads *)
AddTwo == [v \in OptVal |-> IF v = None THEN None ELSE Some((v[1] + 2) % (MaxVal + 1))]
(* |_| u *)
Const(D, u) == [v \in D |-> u]
(* |o| o *)
Ident == [v \in OptVal |-> v]
(* |o| o.ok_or(e) *)
OkOr(e) == [v \in OptVal |-> IF v = None THEN Err(e) ELSE Ok(v[1])]

VFuns == {AddTwo, Const(OptVal, None), Const(OptVal, Some(0))}
MFuns == {[v \in OptVal |-> [val |-> g[v], rep |-> r]] : g \in VFuns, r \in OptKids}
EFuns == {OkOr(e) : e \in Errs} \cup {Const(OptVal, r) : r \in {Ok(1)} \cup {Err(e) : e \in Errs}}
OFuns == {Ident, Const(OptVal, None), Const(OptVal, Some(1))}

---------------------------------------------------------------------------
(* The pipeline: a wrapper created with a value and no diagnostic, then    *)
(* mapping steps, each consuming the wrapper and producing the next one    *)

NoStep == [op |-> "init", f |-> <<>>, msg |-> None]

InitPipe ==
    /\ cur \in {[val |-> v, rep |-> None] : v \in {Some(2), None}}
    /\ prev = cur
    /\ last = NoStep
    /\ steps = 0
    /\ failed = {}

IdlePipe ==
    /\ cur = [val |-> None, rep |-> None]
    /\ prev = cur
    /\ last = NoStep
    /\ steps = 0
    /\ failed = {}

VmapStep ==
    /\ steps < MaxSteps
    /\ \E f \in VFuns :
        /\ cur' = vmap(cur, f)
        /\ last' = [op |-> "vmap", f |-> f, msg |-> None]
    /\ prev' = cur
    /\ steps' = steps + 1
    /\ UNCHANGED <<failed, trailVars>>

MapStep ==
    /\ steps < MaxSteps
    /\ \E f \in MFuns :
        /\ cur' = map(cur, f)
        /\ last' = [op |-> "map", f |-> f, msg |-> None]
    /\ prev' = cur
    /\ steps' = steps + 1
    /\ UNCHANGED <<failed, trailVars>>

EmapStep ==
    /\ steps < MaxSteps
    /\ \E f \in EFuns, msg \in OptMsg :
        /\ cur' = emap(cur, f, msg)
        /\ last' = [op |-> "emap", f |-> f, msg |-> msg]
        /\ failed' = IF f[cur.val].ok THEN failed
                     ELSE failed \cup {IF msg # None THEN msg[1] ELSE DebugFmt(f[cur.val].e)}
    /\ prev' = cur
    /\ steps' = steps + 1
    /\ UNCHANGED trailVars

OmapStep ==
    /\ steps < MaxSteps
    /\ \E f \in OFuns, msg \in OptMsg :
        /\ cur' = omap(cur, f, msg)
        /\ last' = [op |-> "omap", f |-> f, msg |-> msg]
        /\ failed' = IF f[cur.val] # None THEN failed
                     ELSE failed \cup {IF msg # None THEN msg[1] ELSE DefaultNoneMsg}
    /\ prev' = cur
    /\ steps' = steps + 1
    /\ UNCHANGED trailVars

---------------------------------------------------------------------------
(* Building an Ereport directly with push, push_opt and a fold of push_opt *)

BaseTrails == {empty, [msg |-> "root", stack |-> <<>>],
               [msg |-> "root", stack |-> <<[msg |-> "b", stack |-> <<>>]>>]}

RECURSIVE ListsUpTo(_)
ListsUpTo(n) ==
    IF n = 0 THEN {<<>>}
    ELSE ListsUpTo(n - 1) \cup
         {Append(xs, o) : xs \in {ys \in ListsUpTo(n - 1) : Len(ys) = n - 1}, o \in OptKids}

(* the present elements of a list of options, in list order *)
RECURSIVE Present(_)
Present(xs) ==
    IF xs = <<>> THEN <<>>
    ELSE (IF Head(xs) = None THEN <<>> ELSE <<Head(xs)[1]>>) \o Present(Tail(xs))

NoTrailOp == [op |-> "init", arg |-> None]

InitTrail ==
    /\ base \in BaseTrails
    /\ trail = base
    /\ pushed = <<>>
    /\ tprev = base
    /\ tlast = NoTrailOp

IdleTrail ==
    /\ base = empty
    /\ trail = empty
    /\ pushed = <<>>
    /\ tprev = empty
    /\ tlast = NoTrailOp

PushStep ==
    /\ Len(trail.stack) < MaxKids
    /\ \E c \in Kids :
        /\ trail' = push(trail, c)
        /\ pushed' = Append(pushed, c)
        /\ tlast' = [op |-> "push", arg |-> Some(c)]
    /\ tprev' = trail
    /\ UNCHANGED <<base, pipeVars>>

PushOptStep ==
    /\ Len(trail.stack) < MaxKids
    /\ \E o \in OptKids :
        /\ trail' = push_opt(trail, o)
        /\ pushed' = IF o = None THEN pushed ELSE Append(pushed, o[1])
        /\ tlast' = [op |-> "push_opt", arg |-> o]
    /\ tprev' = trail
    /\ UNCHANGED <<base, pipeVars>>

(* vec![..].into_iter().fold(Ereport::empty(), Ereport::push_opt) *)
FoldStep ==
    /\ \E xs \in ListsUpTo(MaxList) :
        /\ trail' = fold_push_opt(empty, xs)
        /\ pushed' = Present(xs)
        /\ tlast' = [op |-> "fold", arg |-> xs]
    /\ base' = empty
    /\ tprev' = empty
    /\ UNCHANGED pipeVars

---------------------------------------------------------------------------
(* Specifications *)

Init == InitPipe /\ IdleTrail
Next == VmapStep \/ MapStep \/ EmapStep \/ OmapStep
Spec == Init /\ [][Next]_vars

InitT == IdlePipe /\ InitTrail
NextT == PushStep \/ PushOptStep \/ FoldStep
SpecTrail == InitT /\ [][NextT]_vars

---------------------------------------------------------------------------
(* Properties *)

(* what the closure of the last step returned for the value it was given *)
Applied == last.f[prev.val]

(* every message of a trail: the root's and every descendant's *)
RECURSIVE TrailMsgs(_)
TrailMsgs(t) == {t.msg} \cup UNION {TrailMsgs(t.stack[i]) : i \in 1 .. Len(t.stack)}

(* C1: vmap(f) returns the value f(v) and the diagnostic it was given,     *)
(* exactly: absent stays absent, a present trail keeps its message and its *)
(* children in order.                                                      *)
C1_VmapKeepsDiagnostic ==
    last.op = "vmap" => cur.val = Applied /\ cur.rep = prev.rep

C1_Witness ==
    /\ last.op = "vmap"
    /\ prev.rep # None
    /\ Len(prev.rep[1].stack) = 2
    /\ cur.val # prev.val

(* C2: the message of every emap/omap step that failed in the chain is     *)
(* still in the final wrapper's diagnostic trail, as the root message or a *)
(* descendant's.                                                           *)
C2_NoFailureMessageLost ==
    \A m \in failed : cur.rep # None /\ m \in TrailMsgs(cur.rep[1])

(* C3: once an emap or omap step has failed, the diagnostic is present in  *)
(* every later wrapper: the diagnostic is None only if every step so far   *)
(* succeeded.                                                              *)
C3_FailureKeepsDiagnosticPresent ==
    failed # {} => cur.rep # None

C3_Witness ==
    /\ failed # {}
    /\ steps = MaxSteps
    /\ last.op = "emap"
    /\ Applied.ok
    /\ prev.val # None

C9_PushAppendsInOrder ==
    /\ trail.msg = base.msg
    /\ trail.stack = base.stack \o pushed
    /\ tlast.op = "push"
           => /\ trail.msg = tprev.msg
              /\ Len(trail.stack) = Len(tprev.stack) + 1
              /\ SubSeq(trail.stack, 1, Len(tprev.stack)) = tprev.stack
              /\ trail.stack[Len(trail.stack)] = tlast.arg[1]

C9_Witness ==
    /\ tlast.op = "push"
    /\ base.stack # <<>>
    /\ Len(pushed) = 2
    /\ pushed[1] # pushed[2]
    /\ pushed[2].stack # <<>>

(* C10: push_opt with None returns the trail unchanged, with Some(c) the   *)
(* trail with c appended; folding push_opt over a list of options from the *)
(* empty trail yields the present elements as children, in list order.     *)
C10_PushOptAppendsWhenPresent ==
    /\ (tlast.op = "push_opt" /\ tlast.arg = None) => trail = tprev
    /\ (tlast.op = "push_opt" /\ tlast.arg # None)
           => trail = [msg |-> tprev.msg, stack |-> tprev.stack \o <<tlast.arg[1]>>]
    /\ tlast.op = "fold"
           => trail = [msg |-> "", stack |-> Present(tlast.arg)]

C10_Witness ==
    /\ tlast.op = "fold"
    /\ Len(tlast.arg) = 2
    /\ tlast.arg[1] = None
    /\ tlast.arg[2] # None

====
